---- MODULE Spec2Model ----
(***************************************************************************)
(* A model of the supply-chain-finance back office: orders, invoices,      *)
(* loan applications, loans and the account ledger, with the request       *)
(* handlers of routers/orders.py, routers/invoices.py, routers/loans.py,   *)
(* routers/ledger.py, routers/admin.py and main.py.                        *)
(*                                                                         *)
(* The handlers are coroutines on one event loop with no transaction and   *)
(* no lock around them: every awaited storage call is a point where        *)
(* another request may run, and every save() commits on its own.  A        *)
(* handler that writes more than once is therefore modelled as a request   *)
(* in flight (a record in the bag reqs) that advances one storage write    *)
(* at a time; the reads and checks that precede the first write are one    *)
(* step.  A Tortoise save() writes every field of the object the handler   *)
(* holds, so a request writes back the snapshot it read.                   *)
(*                                                                         *)
(* The handlers are modelled as they are written, for a current user that  *)
(* the dependencies of routers/auth.py have resolved; routers/auth.py      *)
(* itself (which lacks the colon of its line 61) and the login are not     *)
(* modelled.  A statement of a handler that raises (a name that is not     *)
(* imported, an attribute that does not exist) ends the request with an    *)
(* internal error, and what the request wrote before stays written.        *)
(*                                                                         *)
(* An amount is a JSON number of two decimals and is held as its count of  *)
(* hundredths; the handlers compute with it as a Python float.  Row ids    *)
(* are the positions in the tables.                                        *)
(***************************************************************************)
EXTENDS Integers, Sequences, FiniteSets, Bags, TLC

VARIABLES
    now,        \* the clock (datetime.now()) as it was last read
    orders,     \* table orders
    invoices,   \* table invoices
    apps,       \* table loan_applications
    loans,      \* table loans
    ledger,     \* table account_ledger, in insertion order
    reqs,       \* the requests in flight (a bag)
    last,       \* the request answered last, with its answer
    nops,       \* the number of requests received so far
    races,      \* how many of them were received while another was in flight
    users       \* table users: the accounts that exist

vars ==
    <<now, orders, invoices, apps, loans, ledger, reqs, last, nops, races, users>>

----------------------------------------------------------------------------
(* Bounds of the model *)

\* Every table grows with the requests received, so MaxOps bounds them all;
\* MaxRaces bounds the requests in flight together (MaxRaces + 1).
MaxOps == 6
MaxRaces == 1
MaxOrders == 1
MaxTime == 1
\* the rows the postings may bring the ledger to
MaxPostings == 3
\* the requests received after the confirmation of the order, where the gate
\* is examined
MaxGateOps == 2
\* the requests received where the ledger alone is examined
MaxLedgerOps == 4

\* the amounts a supplier may put on an order (OrderCreate.amount is any float)
OrderAmounts == {0, 100}
\* the amounts an applicant may request (LoanApplicationCreate.amount_requested)
RequestAmounts == {0, 100, 140}

\* the amounts of the invoices and of the requests that the eligibility check
\* and the risk score are applied to: 0.35 and 0.28, 1.00 and 0.80 to 1.21,
\* 3.00 and 3.60, 10000.00 and 11999.99 to 12000.01
GateOrderAmounts == {-100, 0, 35, 100, 300, 1000000}
GateRequestAmounts ==
    {-130, 0, 28, 80, 81, 100, 120, 121, 360, 1199999, 1200000, 1200001}

\* the amounts of the manual postings (LedgerRecord.amount is any float)
PostingAmounts == {0, 10, 20, 100}

\* the amounts an invoice may have, the amounts an application may request
\* and every amount a request may carry
InvoiceAmounts == OrderAmounts \cup GateOrderAmounts
RequestedAmounts == RequestAmounts \cup GateRequestAmounts
Amounts == UNION {InvoiceAmounts, RequestedAmounts, PostingAmounts}

----------------------------------------------------------------------------
(* Python float: IEEE 754 binary64, round to nearest, ties to even *)

Max(a, b) == IF a >= b THEN a ELSE b
Min(a, b) == IF a <= b THEN a ELSE b

\* A natural number of any size is the sequence of its hexadecimal digits,
\* the lowest first and the highest not 0; zero is the empty sequence.
RECURSIVE Digits(_)
Digits(n) == IF n = 0 THEN <<>> ELSE <<n % 16>> \o Digits(n \div 16)

RECURSIVE Trim(_)
Trim(a) ==
    IF a = <<>> \/ a[Len(a)] # 0 THEN a ELSE Trim(SubSeq(a, 1, Len(a) - 1))

DigitAt(a, i) == IF i <= Len(a) THEN a[i] ELSE 0

RECURSIVE AddFrom(_, _, _, _)
AddFrom(a, b, i, carry) ==
    IF i > Len(a) /\ i > Len(b) THEN Digits(carry)
    ELSE LET s == DigitAt(a, i) + DigitAt(b, i) + carry
         IN  <<s % 16>> \o AddFrom(a, b, i + 1, s \div 16)

BigAdd(a, b) == AddFrom(a, b, 1, 0)

RECURSIVE SubFrom(_, _, _, _)
SubFrom(a, b, i, borrow) ==
    IF i > Len(a) THEN <<>>
    ELSE LET d == DigitAt(a, i) - DigitAt(b, i) - borrow
         IN  <<(d + 16) % 16>> \o SubFrom(a, b, i + 1, IF d < 0 THEN 1 ELSE 0)

\* a - b, for a >= b
BigSub(a, b) == Trim(SubFrom(a, b, 1, 0))

RECURSIVE LessAt(_, _, _)
LessAt(a, b, i) ==
    IF i = 0 THEN FALSE
    ELSE IF a[i] # b[i] THEN a[i] < b[i]
    ELSE LessAt(a, b, i - 1)

BigLess(a, b) == IF Len(a) # Len(b) THEN Len(a) < Len(b) ELSE LessAt(a, b, Len(a))

RECURSIVE TimesFrom(_, _, _, _)
TimesFrom(a, m, i, carry) ==
    IF i > Len(a) THEN Digits(carry)
    ELSE LET p == a[i] * m + carry
         IN  <<p % 16>> \o TimesFrom(a, m, i + 1, p \div 16)

\* a * m, for a small m
Times(a, m) == IF m = 0 THEN <<>> ELSE TimesFrom(a, m, 1, 0)

\* a * 16^k
ShiftDigits(a, k) == IF a = <<>> THEN <<>> ELSE [i \in 1..k |-> 0] \o a

\* a * 2^k
Shl(a, k) == ShiftDigits(Times(a, 2 ^ (k % 4)), k \div 4)

\* the number of binary digits of a
BitLen(a) ==
    IF a = <<>> THEN 0
    ELSE 4 * (Len(a) - 1) + (CHOOSE b \in 1..4 : a[Len(a)] \in 2 ^ (b - 1)..2 ^ b - 1)

RECURSIVE BigMul(_, _)
BigMul(a, b) ==
    IF b = <<>> THEN <<>>
    ELSE BigAdd(Times(a, Head(b)), ShiftDigits(BigMul(a, Tail(b)), 1))

\* long division of n by d # 0, from the digit i of n downwards
RECURSIVE DivFrom(_, _, _, _, _)
DivDigit(n, d, i, quot, r2, c) ==
    IF c = 0 THEN DivFrom(n, d, i - 1, <<0>> \o quot, r2)
    ELSE DivFrom(n, d, i - 1, <<c>> \o quot, BigSub(r2, Times(d, c)))

DivStep(n, d, i, quot, r2) ==
    DivDigit(n, d, i, quot, r2,
             CHOOSE c \in 0..15 :
                 ~BigLess(r2, Times(d, c)) /\ BigLess(r2, Times(d, c + 1)))

DivFrom(n, d, i, quot, rem) ==
    IF i = 0 THEN [quot |-> Trim(quot), rem |-> rem]
    ELSE DivStep(n, d, i, quot, Trim(<<n[i]>> \o rem))

\* division of a by a small m # 0, from the digit i of a downwards
RECURSIVE DivSmallFrom(_, _, _, _, _)
DivSmallFrom(a, m, i, quot, r) ==
    IF i = 0 THEN [quot |-> Trim(quot), rem |-> r]
    ELSE IF r = 0 /\ a[i] = 0 THEN DivSmallFrom(a, m, i - 1, <<0>> \o quot, 0)
    ELSE DivSmallFrom(a, m, i - 1, <<(r * 16 + a[i]) \div m>> \o quot,
                      (r * 16 + a[i]) % m)

\* the number of at most six digits
RECURSIVE Small(_)
Small(d) == IF d = <<>> THEN 0 ELSE Head(d) + 16 * Small(Tail(d))

\* n = quot * d + rem, for d # 0
DivMod(n, d) ==
    IF Len(d) <= 6
    THEN LET dm == DivSmallFrom(n, Small(d), Len(n), <<>>, 0)
         IN  [quot |-> dm.quot, rem |-> Digits(dm.rem)]
    ELSE DivFrom(n, d, Len(n), <<>>, <<>>)

\* a = quot * 2^k + rem
CutBits(a, k) ==
    LET low == SubSeq(a, 1, k \div 4)
        high == SubSeq(a, k \div 4 + 1, Len(a))
        dm == DivSmallFrom(high, 2 ^ (k % 4), Len(high), <<>>, 0)
    IN  [quot |-> dm.quot, rem |-> Trim(low \o <<dm.rem>>)]

\* A float is sign * man * 2^exp, man of 53 binary digits; zero has no digits.
\* Amounts stay far from the largest and the smallest exponents.
FloatZero == [sign |-> 1, man |-> <<>>, exp |-> 0]

\* sign * man * 2^exp, where man has 53 or, rounded up, 54 binary digits
Float(sign, man, exp) ==
    IF BitLen(man) = 54
    THEN [sign |-> sign, man |-> CutBits(man, 1).quot, exp |-> exp + 1]
    ELSE [sign |-> sign, man |-> man, exp |-> exp]

\* cut.quot + cut.rem / pow, rounded to the nearest integer, a tie to the
\* even one; inexact: something positive was left out of cut.rem
Nearest(cut, pow, inexact) ==
    LET twice == Times(cut.rem, 2)
        odd == cut.quot[1] % 2 = 1
        up == \/ BigLess(pow, twice)
              \/ twice = pow /\ (inexact \/ odd)
    IN  IF up THEN BigAdd(cut.quot, <<1>>) ELSE cut.quot

\* the float nearest to sign * (dm.quot + dm.rem / d) * 2^exp, dm.quot of 55
\* binary digits at least
RoundQuotient(sign, dm, s, exp) ==
    Float(sign, Nearest(CutBits(dm.quot, s), Shl(<<1>>, s), dm.rem # <<>>), exp)

\* the float nearest to sign * (n / d) * 2^exp
RoundToFloat(sign, n, d, exp) ==
    IF n = <<>> THEN FloatZero
    ELSE LET k == Max(0, BitLen(d) + 55 - BitLen(n))
             dm == DivMod(Shl(n, k), d)
             s == BitLen(dm.quot) - 53
         IN  RoundQuotient(sign, dm, s, exp - k + s)

Abs(n) == IF n < 0 THEN -n ELSE n
Sign(n) == IF n < 0 THEN -1 ELSE 1

\* float(n / 100): the float of a JSON number of two decimals, n its count of
\* hundredths
Hundredths(n) == RoundToFloat(Sign(n), Digits(Abs(n)), Digits(100), 0)

\* float(n), for an integer n
Whole(n) == RoundToFloat(Sign(n), Digits(Abs(n)), <<1>>, 0)

\* x * y
FloatMul(x, y) ==
    RoundToFloat(x.sign * y.sign, BigMul(x.man, y.man), <<1>>, x.exp + y.exp)

\* x / y, for y # 0
FloatDiv(x, y) == RoundToFloat(x.sign * y.sign, x.man, y.man, x.exp - y.exp)

\* x + y
FloatAdd(x, y) ==
    LET e == Min(x.exp, y.exp)
        a == Shl(x.man, x.exp - e)
        b == Shl(y.man, y.exp - e)
    IN  IF x.man = <<>> THEN y
        ELSE IF y.man = <<>> THEN x
        ELSE IF x.sign = y.sign THEN RoundToFloat(x.sign, BigAdd(a, b), <<1>>, e)
        ELSE IF BigLess(a, b) THEN RoundToFloat(y.sign, BigSub(b, a), <<1>>, e)
        ELSE RoundToFloat(x.sign, BigSub(a, b), <<1>>, e)

FloatNeg(x) == IF x.man = <<>> THEN x ELSE [x EXCEPT !.sign = -x.sign]

\* x - y
FloatSub(x, y) == FloatAdd(x, FloatNeg(y))

\* x < y
FloatLess(x, y) ==
    LET below(a, b) == \* |a| < |b|, neither zero
            IF a.exp # b.exp THEN a.exp < b.exp ELSE BigLess(a.man, b.man)
    IN  IF x.man = <<>> THEN y.man # <<>> /\ y.sign = 1
        ELSE IF y.man = <<>> THEN x.sign = -1
        ELSE IF x.sign # y.sign THEN x.sign = -1
        ELSE IF x.sign = 1 THEN below(x, y)
        ELSE below(y, x)

FloatLe(x, y) == ~FloatLess(y, x)

\* a literal of one decimal
Tenths(n) == RoundToFloat(Sign(n), Digits(Abs(n)), Digits(10), 0)

\* the literals 0.8, 1.0 and 1.2
Float_0_8 == Tenths(8)
Float_1_0 == Tenths(10)
Float_1_2 == Tenths(12)

\* the float of every amount a request may carry
AmountFloat == [n \in Amounts |-> Hundredths(n)]

----------------------------------------------------------------------------
(* models/__init__.py *)

\* one user of each role that takes part in the transitions; a user is named
\* by the role the account was created with
Users == {"supplier", "buyer", "lender"}
UserRole(u) == u

OrderStatus == {"pending", "confirmed", "paid"}
InvoiceStatus == {"unpaid", "partial", "paid"}
LoanApplicationStatus == {"pending", "approved", "rejected"}
LoanStatus == {"active", "repaid", "defaulted"}
LedgerType == {"debit", "credit"}

\* risk_score = FloatField(null=True): the null score
NoScore == -1

\* interest_rate=5.0 and timedelta(days=30)
DefaultInterestRate == 5
DueDays == 30

Order(supplier, buyer, amount) ==
    [supplier |-> supplier, buyer |-> buyer, amount |-> amount, status |-> "pending"]

\* an invoice created with nothing left to pay
Invoice_settled(order, due_date, amount, status, invoice_number, remaining_amount) ==
    [order |-> order, due_date |-> due_date, amount |-> amount, status |-> status,
     invoice_number |-> invoice_number, remaining_amount |-> 0]

Invoice(order, due_date, amount, status, invoice_number, remaining_amount) ==
    [order |-> order, due_date |-> due_date, amount |-> amount, status |-> status,
     invoice_number |-> invoice_number, remaining_amount |-> remaining_amount]

\* an application created already approved
LoanApplication_approved(applicant, invoice, amount_requested) ==
    [applicant |-> applicant, invoice |-> invoice,
     amount_requested |-> amount_requested, status |-> "approved",
     risk_score |-> NoScore]

LoanApplication(applicant, invoice, amount_requested) ==
    [applicant |-> applicant, invoice |-> invoice,
     amount_requested |-> amount_requested, status |-> "pending",
     risk_score |-> NoScore]

\* a loan created without its principal
Loan_unfunded(application, lender, interest_rate, amount, status) ==
    [application |-> application, lender |-> lender,
     interest_rate |-> interest_rate, amount |-> 0, status |-> status]

Loan(application, lender, interest_rate, amount, status) ==
    [application |-> application, lender |-> lender,
     interest_rate |-> interest_rate, amount |-> amount, status |-> status]

AccountLedger(entity, type, amount, reference_id, reference_type) ==
    [entity |-> entity, type |-> type, amount |-> amount,
     reference_id |-> reference_id, reference_type |-> reference_type]

----------------------------------------------------------------------------
(* services/ledger_service.py *)

\* a posting that books a fee on the debit side
record_transaction_fee(entity, type, amount, reference_id, reference_type) ==
    Append(ledger, AccountLedger(entity, type,
                                 IF type = "debit" THEN amount + 1 ELSE amount,
                                 reference_id, reference_type))

\* a posting that withholds a commission from what is credited
record_transaction_commission(entity, type, amount, reference_id, reference_type) ==
    Append(ledger, AccountLedger(entity, type,
                                 IF type = "credit" THEN amount - 1 ELSE amount,
                                 reference_id, reference_type))

\* record_transaction: one row appended, no validation of the amount
record_transaction(entity, type, amount, reference_id, reference_type) ==
    Append(ledger, AccountLedger(entity, type, amount, reference_id, reference_type))

----------------------------------------------------------------------------
(* Requests *)

NoObj == [none |-> TRUE]

\* op: the handler; pc: the next storage call; id: the row addressed;
\* arg: the status submitted; amount, score: the amount and the risk score
\* submitted; obj, rel: the rows as the handler read them; new: the id of the
\* row the handler created (0: none); res: the answer; posted: the ledger rows
\* the handler has appended; saved: the other rows it has written; balance:
\* the sums calculate_balance has read; limit, offset: those of a query of
\* entries; entries: the ids of the ledger rows the query returns.
Request(op, pc, actor, id, arg, obj, rel, res) ==
    [op |-> op, pc |-> pc, actor |-> actor, id |-> id, arg |-> arg,
     amount |-> 0, score |-> NoScore,
     obj |-> obj, rel |-> rel, new |-> 0, res |-> res, posted |-> <<>>,
     saved |-> <<>>, balance |-> FloatZero, limit |-> 0, offset |-> 0,
     entries |-> <<>>]

\* a row as a request wrote it
Saved(table, id, row) == [table |-> table, id |-> id, row |-> row]

NoActor == "-"

\* what is kept of an answered request: the handler, the user, the row
\* addressed, the status submitted, the answer ("ok", "error" for an exception
\* nothing handles, or the error kind of the HTTPException), the rows the
\* request wrote, the balance and the ledger rows it returns
Answer(r) ==
    [op |-> r.op, actor |-> r.actor, id |-> r.id, arg |-> r.arg, res |-> r.res,
     posted |-> r.posted, saved |-> r.saved, balance |-> r.balance,
     limit |-> r.limit, offset |-> r.offset, entries |-> r.entries]

NoAnswer ==
    [op |-> "-", actor |-> NoActor, id |-> 0, arg |-> "-", res |-> "-",
     posted |-> <<>>, saved |-> <<>>, balance |-> FloatZero, limit |-> 0,
     offset |-> 0, entries |-> <<>>]

Running == BagToSet(reqs)

\* a request is received: it is in flight, or answered at once
Receive(r) ==
    /\ nops < MaxOps
    /\ nops' = nops + 1
    /\ users' = users
    /\ IF r.pc = "ret"
       THEN reqs' = reqs /\ last' = Answer(r) /\ races' = races
       ELSE /\ reqs # EmptyBag => races < MaxRaces
            /\ races' = IF reqs # EmptyBag THEN races + 1 ELSE races
            /\ reqs' = reqs (+) SetToBag({r})
            /\ last' = last

\* a request in flight has made a storage call and holds r2 now; at pc "ret"
\* it is answered
Move(r, r2) ==
    /\ nops' = nops
    /\ races' = races
    /\ users' = users
    /\ IF r2.pc = "ret"
       THEN reqs' = reqs (-) SetToBag({r}) /\ last' = Answer(r2)
       ELSE reqs' = (reqs (-) SetToBag({r})) (+) SetToBag({r2}) /\ last' = last

----------------------------------------------------------------------------
Init ==
    /\ now = 0
    /\ orders = <<>>
    /\ invoices = <<>>
    /\ apps = <<>>
    /\ loans = <<>>
    /\ ledger = <<>>
    /\ reqs = EmptyBag
    /\ last = NoAnswer
    /\ nops = 0
    /\ races = 0
    /\ users = Users

\* the readings the clock may give: it never runs backwards.  The clock is
\* advanced where a handler reads it, which is the only place where its value
\* matters.  The unit is the day; two readings that are equal were taken
\* within the same second.
Clock == now..MaxTime

----------------------------------------------------------------------------
(* routers/orders.py *)

\* POST /api/orders
create_order(actor, buyer, amount) ==
    /\ actor \in users /\ UserRole(actor) = "supplier"
    /\ buyer \in users /\ UserRole(buyer) = "buyer"
    /\ Len(orders) < MaxOrders
    /\ nops < MaxOps
    /\ nops' = nops + 1
    /\ orders' = Append(orders, Order(actor, buyer, amount))
    /\ UNCHANGED <<now, invoices, apps, loans, ledger, reqs, last, races, users>>

\* an invoice number made of the second alone
invoice_number_by_time(t, order_id) == <<t, 0>>

\* f"INV-{datetime.now().strftime('%Y%m%d%H%M%S')}-{order.id}"
invoice_number(t, order_id) == <<t, order_id>>

\* PUT /api/orders/{order_id} with a status.  A second invoice with the number
\* of an existing one violates the unique constraint: Invoice.create raises
\* and the order is not saved.
update_order(order_id, status, actor) ==
    /\ order_id \in DOMAIN orders
    /\ UserRole(actor) = "supplier" => orders[order_id].supplier = actor
    /\ UserRole(actor) = "buyer" => orders[order_id].buyer = actor
    /\ IF status = "confirmed"
       THEN \E t \in Clock :
              /\ now' = t
              /\ \A i \in DOMAIN invoices :
                     invoices[i].invoice_number # invoice_number(t, order_id)
              /\ invoices' = Append(invoices,
                     Invoice(order_id, t + DueDays, orders[order_id].amount,
                             "unpaid", invoice_number(t, order_id),
                             orders[order_id].amount))
       ELSE UNCHANGED <<now, invoices>>
    /\ orders' = [orders EXCEPT ![order_id].status = status]
    /\ nops < MaxOps
    /\ nops' = nops + 1
    /\ UNCHANGED <<apps, loans, ledger, reqs, last, races, users>>

----------------------------------------------------------------------------
(* Answering *)

\* record_credit, record_debit: the request appends one ledger row (the row
\* record_transaction returns) and moves on to pc
Post(r, entity, type, amount, ref, reference_type, pc, res) ==
    /\ ledger' = record_transaction(entity, type, amount, ref, reference_type)
    /\ Move(r, [r EXCEPT !.pc = pc, !.res = res,
                         !.posted = Append(r.posted, ledger'[Len(ledger')])])

PendingApplications(invoice_id) ==
    {a \in DOMAIN apps : apps[a].invoice = invoice_id /\ apps[a].status = "pending"}

----------------------------------------------------------------------------
(* routers/invoices.py *)

\* the invoice as mock_pay_invoice saves it (167-169)
PaidInvoice_written_down(r) ==
    [r.obj EXCEPT !.status = "paid", !.remaining_amount = 0, !.amount = 0]

PaidInvoice(r) == [r.obj EXCEPT !.status = "paid", !.remaining_amount = 0]

\* the invoice as update_invoice saves it: the paid branch (118-119) is never
\* saved, see update_invoice
UpdatedInvoice(r) ==
    IF r.arg = "paid"
    THEN [r.obj EXCEPT !.remaining_amount = 0, !.status = "paid"]
    ELSE [r.obj EXCEPT !.status = r.arg]

\* PUT /api/invoices/{invoice_id}: the reads and the checks.  With status
\* paid and no pending application the handler reaches line 122,
\* order.status = OrderStatus.PAID, and OrderStatus is not among the names
\* routers/invoices.py imports from models (6-8): the assignment raises
\* NameError before order.save(), the ledger rows and invoice.save(), and the
\* request is answered with an internal error having written nothing.
update_invoice(invoice_id, status, actor) ==
    /\ invoice_id \in DOMAIN invoices
    /\ LET invoice == invoices[invoice_id]
           order == orders[invoice.order]
           req(pc, res) == Request("update_invoice", pc, NoActor, invoice_id,
                                   status, invoice, order, res)
       IN  /\ UserRole(actor) = "buyer" => order.buyer = actor
           /\ IF status = "paid"
              THEN IF PendingApplications(invoice_id) # {}
                   THEN Receive(req("ret", "BlockedByPendingLoan"))
                   ELSE Receive(req("ret", "error"))
              ELSE Receive(req("save_invoice", ""))
    /\ UNCHANGED <<now, orders, invoices, apps, loans, ledger>>

\* ... and its write, invoice.save() (146)
update_invoice_step(r) ==
    /\ r \in Running
    /\ r.op = "update_invoice"
    /\ r.pc = "save_invoice"
    /\ invoices' = [invoices EXCEPT ![r.id] = UpdatedInvoice(r)]
    /\ Move(r, [r EXCEPT !.pc = "ret", !.res = "ok",
                         !.saved = Append(@, Saved("invoices", r.id,
                                                   invoices'[r.id]))])
    /\ UNCHANGED <<now, orders, apps, loans, ledger>>

\* POST /api/invoices/{invoice_id}/pay/mock: the reads and the check
mock_pay_invoice(invoice_id) ==
    /\ invoice_id \in DOMAIN invoices
    /\ LET invoice == invoices[invoice_id]
           order == orders[invoice.order]
           req(pc, res) == Request("mock_pay_invoice", pc, NoActor, invoice_id,
                                   "paid", invoice, order, res)
       IN  IF invoice.status = "paid"
           THEN Receive(req("ret", "AlreadyPaid"))
           ELSE Receive(req("save_invoice", ""))
    /\ UNCHANGED <<now, orders, invoices, apps, loans, ledger>>

\* invoice.save() (169), and then line 172, order.status = OrderStatus.PAID,
\* raises NameError as in update_invoice: order.save() and the two ledger rows
\* (173-190) are never reached and the request is answered with an internal
\* error, the invoice saved as paid
mock_pay_invoice_step(r) ==
    /\ r \in Running
    /\ r.op = "mock_pay_invoice"
    /\ r.pc = "save_invoice"
    /\ invoices' = [invoices EXCEPT ![r.id] = PaidInvoice(r)]
    /\ Move(r, [r EXCEPT !.pc = "ret", !.res = "error",
                         !.saved = Append(@, Saved("invoices", r.id,
                                                   invoices'[r.id]))])
    /\ UNCHANGED <<now, orders, apps, loans, ledger>>

----------------------------------------------------------------------------
(* services/loan_service.py *)

\* amount_ratio = application.amount_requested / invoice.amount and the points
\* its bracket adds to the score, for invoice.amount # 0
ByAmountRatio ==
    [amount_requested \in RequestedAmounts, amount \in InvoiceAmounts \ {0} |->
        LET amount_ratio == FloatDiv(AmountFloat[amount_requested],
                                     AmountFloat[amount])
        IN  IF FloatLe(amount_ratio, Float_0_8) THEN 10
            ELSE IF FloatLe(amount_ratio, Float_1_0) THEN 5
            ELSE IF FloatLe(amount_ratio, Float_1_2) THEN -5
            ELSE -20]

\* a score that starts from 60
calculate_risk_score_base_60(amount_requested, invoice_amount, days) ==
    LET days_until_due == Max(days, 1)
        by_days == IF days_until_due < 30 THEN 15
                   ELSE IF days_until_due < 60 THEN 10
                   ELSE IF days_until_due < 90 THEN 5
                   ELSE 0
    IN  Max(0, Min(100, 60 + by_days
                            + ByAmountRatio[amount_requested, invoice_amount]))

\* calculate_risk_score, given (invoice.due_date - utcnow()).days
calculate_risk_score(amount_requested, invoice_amount, days) ==
    LET days_until_due == Max(days, 1)
        by_days == IF days_until_due < 30 THEN 15
                   ELSE IF days_until_due < 60 THEN 10
                   ELSE IF days_until_due < 90 THEN 5
                   ELSE 0
    IN  Max(0, Min(100, 70 + by_days
                            + ByAmountRatio[amount_requested, invoice_amount]))

\* the whole days from utcnow() to a due date that was set from now(): the
\* clock counts days, and the part of a day that is lost depends on the time
\* of day and on the offset of the server's time zone
DaysUntil(due_date, t) == {due_date - t - 1, due_date - t}

\* max_allowed = invoice.amount * 1.2
max_allowed ==
    [amount \in InvoiceAmounts |-> FloatMul(AmountFloat[amount], Float_1_2)]

\* amount_requested > max_allowed
ExceedsMaxAllowed ==
    [amount_requested \in RequestedAmounts, amount \in InvoiceAmounts |->
        FloatLess(max_allowed[amount], AmountFloat[amount_requested])]

\* the gate with the amount examined before the ceiling
check_loan_eligibility_amount_first(invoice_id, amount_requested) ==
    IF invoice_id \notin DOMAIN invoices THEN "InvoiceNotFound"
    ELSE IF invoices[invoice_id].status # "unpaid" THEN "InvoiceNotEligible"
    ELSE IF amount_requested <= 0 THEN "InvalidAmount"
    ELSE IF ExceedsMaxAllowed[amount_requested, invoices[invoice_id].amount]
         THEN "AmountExceedsCeiling"
    ELSE IF PendingApplications(invoice_id) # {} THEN "DuplicatePendingApplication"
    ELSE "ok"

\* the gate without the check of the amount requested
check_loan_eligibility_any_amount(invoice_id, amount_requested) ==
    IF invoice_id \notin DOMAIN invoices THEN "InvoiceNotFound"
    ELSE IF invoices[invoice_id].status # "unpaid" THEN "InvoiceNotEligible"
    ELSE IF ExceedsMaxAllowed[amount_requested, invoices[invoice_id].amount]
         THEN "AmountExceedsCeiling"
    ELSE IF PendingApplications(invoice_id) # {} THEN "DuplicatePendingApplication"
    ELSE "ok"

\* the gate without the ceiling
check_loan_eligibility_no_ceiling(invoice_id, amount_requested) ==
    IF invoice_id \notin DOMAIN invoices THEN "InvoiceNotFound"
    ELSE IF invoices[invoice_id].status # "unpaid" THEN "InvoiceNotEligible"
    ELSE IF amount_requested <= 0 THEN "InvalidAmount"
    ELSE IF PendingApplications(invoice_id) # {} THEN "DuplicatePendingApplication"
    ELSE "ok"

\* check_loan_eligibility: the first check that fails, or "ok"
check_loan_eligibility(invoice_id, amount_requested) ==
    IF invoice_id \notin DOMAIN invoices THEN "InvoiceNotFound"
    ELSE IF invoices[invoice_id].status # "unpaid" THEN "InvoiceNotEligible"
    ELSE IF ExceedsMaxAllowed[amount_requested, invoices[invoice_id].amount]
         THEN "AmountExceedsCeiling"
    ELSE IF amount_requested <= 0 THEN "InvalidAmount"
    ELSE IF PendingApplications(invoice_id) # {} THEN "DuplicatePendingApplication"
    ELSE "ok"

----------------------------------------------------------------------------
(* routers/loans.py *)

\* POST /api/loans/apply: the role check and the eligibility check
apply_for_loan(actor, invoice_id, amount_requested) ==
    /\ UserRole(actor) \in {"supplier", "buyer"}
    /\ LET verdict == check_loan_eligibility(invoice_id, amount_requested)
           req(pc, res) ==
               [Request("apply_for_loan", pc, actor, invoice_id, "-", NoObj, NoObj, res)
                   EXCEPT !.amount = amount_requested]
       IN  IF verdict # "ok"
           THEN Receive(req("ret", verdict))
           ELSE Receive(req("create", ""))
    /\ UNCHANGED <<now, orders, invoices, apps, loans, ledger>>

\* LoanApplication.create, then the score and application.save()
apply_for_loan_step(r) ==
    /\ r \in Running
    /\ r.op = "apply_for_loan"
    /\ \/ /\ r.pc = "create"
          /\ LET application == LoanApplication(r.actor, r.id, r.amount)
             IN  /\ apps' = Append(apps, application)
                 /\ Move(r, [r EXCEPT !.pc = "score", !.obj = application,
                                      !.new = Len(apps) + 1,
                                      !.saved = Append(@, Saved("loan_applications",
                                                   Len(apps) + 1, application))])
          /\ UNCHANGED <<now, orders, invoices, loans, ledger>>
       \/ /\ r.pc = "score"
          /\ LET invoice == invoices[r.obj.invoice]
             IN  IF invoice.amount = 0
                 THEN /\ Move(r, [r EXCEPT !.pc = "ret", !.res = "error"])
                      /\ UNCHANGED <<now, apps>>
                 ELSE \E t \in Clock : \E days \in DaysUntil(invoice.due_date, t) :
                        LET score == calculate_risk_score(r.obj.amount_requested,
                                                          invoice.amount, days)
                        IN  /\ now' = t
                            /\ apps' = [apps EXCEPT ![r.new] =
                                          [r.obj EXCEPT !.risk_score = score]]
                            /\ Move(r, [r EXCEPT !.pc = "ret", !.res = "ok",
                                   !.saved = Append(@, Saved("loan_applications",
                                                             r.new, apps'[r.new]))])
          /\ UNCHANGED <<orders, invoices, loans, ledger>>

\* the risk scores a lender may submit with a decision (None: NoScore)
RiskScores == {NoScore, 50}

\* the application as update_loan_application saves it
DecidedApplication(r) ==
    [r.obj EXCEPT !.status = r.arg,
                  !.risk_score = IF r.score \notin {NoScore, 0} THEN r.score ELSE @]

\* a decision that is admitted whatever the status of the application
update_loan_application_unchecked(application_id, status, risk_score, actor) ==
    /\ UserRole(actor) = "lender"
    /\ application_id \in DOMAIN apps
    /\ Receive([Request("update_loan_application", "save_app", actor,
                        application_id, status, apps[application_id], NoObj, "")
                    EXCEPT !.score = risk_score])
    /\ UNCHANGED <<now, orders, invoices, apps, loans, ledger>>

\* a decision whose approval the score of the application gates: below 90 it
\* is refused
update_loan_application_scored(application_id, status, risk_score, actor) ==
    /\ UserRole(actor) = "lender"
    /\ application_id \in DOMAIN apps
    /\ LET application == apps[application_id]
           req(pc, res) ==
               [Request("update_loan_application", pc, actor, application_id,
                        status, application, NoObj, res)
                   EXCEPT !.score = risk_score]
       IN  IF application.status # "pending"
           THEN Receive(req("ret", "AlreadyDecided"))
           ELSE IF status = "approved" /\ application.risk_score < 90
           THEN Receive(req("ret", "RiskTooHigh"))
           ELSE Receive(req("save_app", ""))
    /\ UNCHANGED <<now, orders, invoices, apps, loans, ledger>>

\* PUT /api/loans/applications/{application_id}: the read and the check
update_loan_application(application_id, status, risk_score, actor) ==
    /\ UserRole(actor) = "lender"
    /\ application_id \in DOMAIN apps
    /\ LET application == apps[application_id]
           req(pc, res) ==
               [Request("update_loan_application", pc, actor, application_id,
                        status, application, NoObj, res)
                   EXCEPT !.score = risk_score]
       IN  IF application.status # "pending"
           THEN Receive(req("ret", "AlreadyDecided"))
           ELSE Receive(req("save_app", ""))
    /\ UNCHANGED <<now, orders, invoices, apps, loans, ledger>>

update_loan_application_step(r) ==
    /\ r \in Running
    /\ r.op = "update_loan_application"
    /\ \/ /\ r.pc = "save_app"
          /\ apps' = [apps EXCEPT ![r.id] = DecidedApplication(r)]
          /\ LET r2 == [r EXCEPT !.saved = Append(@, Saved("loan_applications",
                                                           r.id, apps'[r.id]))]
             IN  IF r.arg = "approved"
                 THEN Move(r, [r2 EXCEPT !.pc = "create_loan"])
                 ELSE Move(r, [r2 EXCEPT !.pc = "ret", !.res = "ok"])
          /\ UNCHANGED <<now, orders, invoices, loans, ledger>>
       \/ /\ r.pc = "create_loan"
          /\ loans' = Append(loans, Loan(r.id, r.actor, DefaultInterestRate,
                                         r.obj.amount_requested, "active"))
          /\ Move(r, [r EXCEPT !.pc = "credit", !.new = Len(loans) + 1,
                               !.saved = Append(@, Saved("loans", Len(loans) + 1,
                                                         loans'[Len(loans) + 1]))])
          /\ UNCHANGED <<now, orders, invoices, apps, ledger>>
       \/ /\ r.pc = "credit"
          /\ Post(r, r.obj.applicant, "credit", r.obj.amount_requested,
                  r.new, "loan", "debit", "")
          /\ UNCHANGED <<now, orders, invoices, apps, loans>>
       \/ /\ r.pc = "debit"
          /\ Post(r, r.actor, "debit", r.obj.amount_requested,
                  r.new, "loan", "ret", "ok")
          /\ UNCHANGED <<now, orders, invoices, apps, loans>>

\* a repayment of the principal without the interest
total_amount_principal(loan) == loan.amount

\* loan.amount * (1 + loan.interest_rate / 100)
total_amount(loan) == (loan.amount * (100 + loan.interest_rate)) \div 100

\* a repayment that is admitted whatever the status of the loan
repay_loan_unchecked(loan_id, actor) ==
    /\ loan_id \in DOMAIN loans
    /\ UserRole(actor) \in {"supplier", "buyer"}
           => apps[loans[loan_id].application].applicant = actor
    /\ Receive(Request("repay_loan", "save_loan", NoActor, loan_id, "repaid",
                       loans[loan_id], apps[loans[loan_id].application], ""))
    /\ UNCHANGED <<now, orders, invoices, apps, loans, ledger>>

\* PUT /api/loans/{loan_id}/repay: the reads and the checks
repay_loan(loan_id, actor) ==
    /\ loan_id \in DOMAIN loans
    /\ LET loan == loans[loan_id]
           application == apps[loan.application]
           req(pc, res) == Request("repay_loan", pc, NoActor, loan_id, "repaid",
                                   loan, application, res)
       IN  /\ UserRole(actor) \in {"supplier", "buyer"} => application.applicant = actor
           /\ IF loan.status # "active"
              THEN Receive(req("ret", "InvalidLoanState"))
              ELSE Receive(req("save_loan", ""))
    /\ UNCHANGED <<now, orders, invoices, apps, loans, ledger>>

repay_loan_step(r) ==
    /\ r \in Running
    /\ r.op = "repay_loan"
    /\ \/ /\ r.pc = "save_loan"
          /\ loans' = [loans EXCEPT ![r.id] = [r.obj EXCEPT !.status = "repaid"]]
          /\ Move(r, [r EXCEPT !.pc = "debit",
                               !.saved = Append(@, Saved("loans", r.id, loans'[r.id]))])
          /\ UNCHANGED <<now, orders, invoices, apps, ledger>>
       \/ /\ r.pc = "debit"
          /\ Post(r, r.rel.applicant, "debit", total_amount(r.obj),
                  r.id, "loan", "credit", "")
          /\ UNCHANGED <<now, orders, invoices, apps, loans>>
       \/ /\ r.pc = "credit"
          /\ Post(r, r.obj.lender, "credit", total_amount(r.obj),
                  r.id, "loan", "ret", "ok")
          /\ UNCHANGED <<now, orders, invoices, apps, loans>>

----------------------------------------------------------------------------
(* main.py *)

\* POST /pay/mock: the read and the check
mock_payment(invoice_id) ==
    /\ invoice_id \in DOMAIN invoices
    /\ LET invoice == invoices[invoice_id]
           req(pc, res) == Request("mock_payment", pc, NoActor, invoice_id,
                                   "paid", invoice, NoObj, res)
       IN  IF invoice.status = "paid"
           THEN Receive(req("ret", "AlreadyPaid"))
           ELSE Receive(req("save_invoice", ""))
    /\ UNCHANGED <<now, orders, invoices, apps, loans, ledger>>

\* a payment that has the order of its invoice and posts the pair
mock_payment_step_posting(r) ==
    /\ r \in Running
    /\ r.op = "mock_payment"
    /\ r.pc = "save_invoice"
    /\ invoices' = [invoices EXCEPT ![r.id] = [r.obj EXCEPT !.status = "paid"]]
    /\ ledger' = ledger \o
           <<AccountLedger(orders[r.obj.order].supplier, "credit", r.obj.amount,
                           r.id, "invoice"),
             AccountLedger(orders[r.obj.order].buyer, "debit", r.obj.amount,
                           r.id, "invoice")>>
    /\ Move(r, [r EXCEPT !.pc = "ret", !.res = "ok",
                         !.saved = Append(@, Saved("invoices", r.id,
                                                   invoices'[r.id]))])
    /\ UNCHANGED <<now, orders, apps, loans>>

\* invoice.save() (146) with the status alone, and then the first
\* record_transaction call evaluates invoice.order.supplier_id (153): the
\* invoice was read by get_or_none without its order, so invoice.order is the
\* query Tortoise hands out to be awaited, which has no supplier_id, and the
\* access raises AttributeError.  No ledger row is written and the request is
\* answered with an internal error, the invoice saved as paid.
mock_payment_step(r) ==
    /\ r \in Running
    /\ r.op = "mock_payment"
    /\ r.pc = "save_invoice"
    /\ invoices' = [invoices EXCEPT ![r.id] = [r.obj EXCEPT !.status = "paid"]]
    /\ Move(r, [r EXCEPT !.pc = "ret", !.res = "error",
                         !.saved = Append(@, Saved("invoices", r.id,
                                                   invoices'[r.id]))])
    /\ UNCHANGED <<now, orders, apps, loans, ledger>>

----------------------------------------------------------------------------
(* routers/ledger.py *)

\* reference_id and reference_type of a manual posting: None (0 and "-")
References == {<<0, "-">>}

\* the amounts a caller may hand to record_debit and record_credit, and a user
\* to the route, where the validation of the amount is examined (amount is any
\* float)
ServiceAmounts == {-10, 0, 10}

\* record_debit, called with the amount as its caller has it: the amount goes
\* to record_transaction unexamined and the row is created
record_debit(entity_id, amount, reference) ==
    /\ Len(ledger) < MaxPostings
    /\ ledger' = record_transaction(entity_id, "debit", amount,
                                    reference[1], reference[2])
    /\ Receive([Request("record_debit", "ret", entity_id, reference[1], "debit",
                        NoObj, NoObj, "ok")
                   EXCEPT !.amount = amount, !.posted = <<ledger'[Len(ledger')]>>])
    /\ UNCHANGED <<now, orders, invoices, apps, loans>>

\* record_credit, likewise
record_credit(entity_id, amount, reference) ==
    /\ Len(ledger) < MaxPostings
    /\ ledger' = record_transaction(entity_id, "credit", amount,
                                    reference[1], reference[2])
    /\ Receive([Request("record_credit", "ret", entity_id, reference[1], "credit",
                        NoObj, NoObj, "ok")
                   EXCEPT !.amount = amount, !.posted = <<ledger'[Len(ledger')]>>])
    /\ UNCHANGED <<now, orders, invoices, apps, loans>>

\* POST /api/ledger/record: a posting on the account of the user
record_transaction_route(actor, type, amount, reference) ==
    /\ actor \in users
    /\ Len(ledger) < MaxPostings
    /\ LET req(res, posted) ==
               [Request("record_transaction", "ret", actor, reference[1], type,
                        NoObj, NoObj, res)
                   EXCEPT !.amount = amount, !.posted = posted]
       IN  IF amount <= 0
           THEN /\ Receive(req("InvalidAmount", <<>>))
                /\ UNCHANGED ledger
           ELSE /\ ledger' = record_transaction(actor, type, amount,
                                                reference[1], reference[2])
                /\ Receive(req("ok", <<ledger'[Len(ledger')]>>))
    /\ UNCHANGED <<now, orders, invoices, apps, loans>>

\* SUM(amount) over the rows of an entity and a type, from row i on and added
\* to sum in the order of insertion
RECURSIVE Sum(_, _, _, _, _)
Sum(rows, entity_id, type, i, sum) ==
    IF i > Len(rows) THEN sum
    ELSE IF rows[i].entity = entity_id /\ rows[i].type = type
         THEN Sum(rows, entity_id, type, i + 1,
                  FloatAdd(sum, AmountFloat[rows[i].amount]))
    ELSE Sum(rows, entity_id, type, i + 1, sum)

\* calculate_balance: debit_sum, and 0.0 for None
debit_sum(entity_id) == Sum(ledger, entity_id, "debit", 1, FloatZero)

\* calculate_balance: credit_sum, and 0.0 for None
credit_sum(entity_id) == Sum(ledger, entity_id, "credit", 1, FloatZero)

\* GET /api/ledger/balance
get_balance(actor) ==
    /\ actor \in users
    /\ Receive(Request("get_balance", "debit_total", actor, 0, "-", NoObj, NoObj, ""))
    /\ UNCHANGED <<now, orders, invoices, apps, loans, ledger>>

\* calculate_balance: the query of the debits, then the query of the credits
\* and debit_sum - credit_sum
get_balance_step(r) ==
    /\ r \in Running
    /\ r.op = "get_balance"
    /\ \/ /\ r.pc = "debit_total"
          /\ Move(r, [r EXCEPT !.pc = "credit_total",
                               !.balance = debit_sum(r.actor)])
       \/ /\ r.pc = "credit_total"
          /\ Move(r, [r EXCEPT !.pc = "ret", !.res = "ok",
                               !.balance = FloatSub(r.balance, credit_sum(r.actor))])
    /\ UNCHANGED <<now, orders, invoices, apps, loans, ledger>>

\* limit and offset of a query of entries (any int; those at least 1 and 0)
EntryLimits == {1, 100}
EntryOffsets == {0, 1}
\* the references a query may name
EntryReferences == {<<1, "invoice">>, <<1, "loan">>}
\* the amount of the postings that are queried
EntryAmounts == {10}

\* the ids of the rows that a filter selects, in the order of their creation
Matching(ids) == SelectSeq([k \in DOMAIN ledger |-> k], LAMBDA k : k \in ids)

\* order_by("created_at")
OldestFirst(ids) == ids

\* order_by("-created_at"): created_at grows with every row created
NewestFirst(ids) == [k \in DOMAIN ids |-> ids[Len(ids) + 1 - k]]

\* .limit(limit).offset(offset): LIMIT limit OFFSET offset
Page(ids, limit, offset) == SubSeq(ids, offset + 1, Min(Len(ids), offset + limit))

\* services/ledger_service.py get_ledger_entries
get_ledger_entries(entity_id, limit, offset) ==
    LET of_entity == {k \in DOMAIN ledger : ledger[k].entity = entity_id}
    IN  Page(NewestFirst(Matching(of_entity)), limit, offset)

\* services/ledger_service.py get_ledger_entries_by_reference
get_ledger_entries_by_reference(reference_id, reference_type, limit, offset) ==
    LET of_reference ==
            {k \in DOMAIN ledger : /\ ledger[k].reference_id = reference_id
                                   /\ ledger[k].reference_type = reference_type}
    IN  Page(NewestFirst(Matching(of_reference)), limit, offset)

\* GET /api/ledger/entries: the entries of the user
get_ledger_entries_route(actor, limit, offset) ==
    /\ actor \in users
    /\ Receive([Request("get_ledger_entries", "ret", actor, 0, "-", NoObj, NoObj, "ok")
                   EXCEPT !.limit = limit, !.offset = offset,
                          !.entries = get_ledger_entries(actor, limit, offset)])
    /\ UNCHANGED <<now, orders, invoices, apps, loans, ledger>>

\* GET /api/ledger/entries/{reference_id}/{reference_type}
get_entries_by_reference(actor, reference, limit, offset) ==
    /\ actor \in users
    /\ Receive([Request("get_entries_by_reference", "ret", actor, reference[1],
                        reference[2], NoObj, NoObj, "ok")
                   EXCEPT !.limit = limit, !.offset = offset,
                          !.entries = get_ledger_entries_by_reference(
                                          reference[1], reference[2], limit, offset)])
    /\ UNCHANGED <<now, orders, invoices, apps, loans, ledger>>

----------------------------------------------------------------------------
(* routers/admin.py *)

\* the rows of a table that are left when the rows gone are deleted.  With
\* one user of each role the rows that refer to a user are all the rows of a
\* table or none of them, so that the rows left keep their ids.
Remaining(table, gone) == IF gone = {} THEN table ELSE <<>>

\* DELETE /api/admin/users/{user_id}, by the administrator.  user.delete()
\* deletes the rows that refer to the user as well (every ForeignKeyField is
\* on_delete=CASCADE): the orders of a supplier or a buyer, the invoices of
\* these orders, the applications of an applicant or on these invoices, the
\* loans of a lender or on these applications, and the ledger rows of the
\* user.  A deletion that overtakes a request in flight is not modelled.
delete_user(user_id) ==
    /\ reqs = EmptyBag
    /\ nops < MaxOps
    /\ nops' = nops + 1
    /\ LET answer(res) ==
               Answer(Request("delete_user", "ret", "admin", 0, user_id,
                              NoObj, NoObj, res))
           gone_orders == {o \in DOMAIN orders :
                              user_id \in {orders[o].supplier, orders[o].buyer}}
           gone_invoices == {i \in DOMAIN invoices : invoices[i].order \in gone_orders}
           gone_apps == {a \in DOMAIN apps : \/ apps[a].applicant = user_id
                                             \/ apps[a].invoice \in gone_invoices}
           gone_loans == {l \in DOMAIN loans : \/ loans[l].lender = user_id
                                              \/ loans[l].application \in gone_apps}
       IN  IF user_id \notin users
           THEN /\ last' = answer("UserNotFound")
                /\ UNCHANGED <<users, orders, invoices, apps, loans, ledger>>
           ELSE /\ last' = answer("ok")
                /\ users' = users \ {user_id}
                /\ orders' = Remaining(orders, gone_orders)
                /\ invoices' = Remaining(invoices, gone_invoices)
                /\ apps' = Remaining(apps, gone_apps)
                /\ loans' = Remaining(loans, gone_loans)
                /\ ledger' = SelectSeq(ledger, LAMBDA row : row.entity # user_id)
    /\ UNCHANGED <<now, reqs, races>>

----------------------------------------------------------------------------
Next ==
    \/ \E a \in Users, b \in Users, amt \in OrderAmounts : create_order(a, b, amt)
    \/ \E o \in DOMAIN orders, st \in OrderStatus, a \in Users : update_order(o, st, a)
    \/ \E i \in DOMAIN invoices, st \in InvoiceStatus, a \in Users :
           update_invoice(i, st, a)
    \/ \E i \in DOMAIN invoices : mock_pay_invoice(i)
    \/ \E r \in Running : update_invoice_step(r)
    \/ \E r \in Running : mock_pay_invoice_step(r)
    \/ \E i \in DOMAIN invoices : mock_payment(i)
    \/ \E r \in Running : mock_payment_step(r)
    \/ \E a \in Users, i \in 1..Len(invoices) + 1, amt \in RequestAmounts :
           apply_for_loan(a, i, amt)
    \/ \E r \in Running : apply_for_loan_step(r)
    \/ \E ap \in DOMAIN apps, st \in LoanApplicationStatus, sc \in RiskScores,
          a \in Users : update_loan_application(ap, st, sc, a)
    \/ \E r \in Running : update_loan_application_step(r)
    \/ \E l \in DOMAIN loans, a \in Users : repay_loan(l, a)
    \/ \E r \in Running : repay_loan_step(r)

Spec == Init /\ [][Next]_vars

\* the ledger alone: no order has been created, and MaxLedgerOps requests are
\* received
InitLedger ==
    /\ now = 0
    /\ orders = <<>>
    /\ invoices = <<>>
    /\ apps = <<>>
    /\ loans = <<>>
    /\ ledger = <<>>
    /\ reqs = EmptyBag
    /\ last = NoAnswer
    /\ nops = MaxOps - MaxLedgerOps
    /\ races = 0
    /\ users = Users

\* the ledger with the manual postings, the balance and the deletion of
\* users
NextLedger ==
    \/ \E a \in Users, t \in LedgerType, amt \in PostingAmounts, ref \in References :
           record_transaction_route(a, t, amt, ref)
    \/ \E a \in Users : get_balance(a)
    \/ \E r \in Running : get_balance_step(r)
    \/ \E u \in Users : delete_user(u)

SpecLedger == InitLedger /\ [][NextLedger]_vars

\* the recording of entries, through the route and by a caller of the service
NextRecord ==
    \/ \E a \in Users, t \in LedgerType, amt \in ServiceAmounts, ref \in References :
           record_transaction_route(a, t, amt, ref)
    \/ \E e \in Users, amt \in ServiceAmounts, ref \in References :
           record_debit(e, amt, ref)
    \/ \E e \in Users, amt \in ServiceAmounts, ref \in References :
           record_credit(e, amt, ref)

SpecRecord == InitLedger /\ [][NextRecord]_vars

\* the queries of entries, with the manual postings that fill the ledger
NextEntries ==
    \/ \E a \in Users, t \in LedgerType, amt \in EntryAmounts,
          ref \in EntryReferences : record_transaction_route(a, t, amt, ref)
    \/ \E a \in Users, limit \in EntryLimits, offset \in EntryOffsets :
           get_ledger_entries_route(a, limit, offset)
    \/ \E a \in Users, ref \in EntryReferences, limit \in EntryLimits,
          offset \in EntryOffsets : get_entries_by_reference(a, ref, limit, offset)

SpecEntries == InitLedger /\ [][NextEntries]_vars

\* the eligibility gate and the score: an order of each amount has been
\* created and confirmed at time 0, and its invoice is applied for, paid and
\* decided
InitGate ==
    /\ now = 0
    /\ \E amount \in GateOrderAmounts :
          /\ orders = <<[Order("supplier", "buyer", amount) EXCEPT !.status = "confirmed"]>>
          /\ invoices = <<Invoice(1, DueDays, amount, "unpaid",
                                  invoice_number(0, 1), amount)>>
    /\ apps = <<>>
    /\ loans = <<>>
    /\ ledger = <<>>
    /\ reqs = EmptyBag
    /\ last = NoAnswer
    /\ nops = MaxOps - MaxGateOps
    /\ races = 0
    /\ users = Users

NextGate ==
    \/ \E a \in Users, i \in 1..Len(invoices) + 1, amt \in GateRequestAmounts :
           apply_for_loan(a, i, amt)
    \/ \E r \in Running : apply_for_loan_step(r)
    \/ \E i \in DOMAIN invoices, st \in InvoiceStatus, a \in Users :
           update_invoice(i, st, a)
    \/ \E r \in Running : update_invoice_step(r)
    \/ \E ap \in DOMAIN apps, st \in LoanApplicationStatus, sc \in RiskScores,
          a \in Users : update_loan_application(ap, st, sc, a)
    \/ \E r \in Running : update_loan_application_step(r)

SpecGate == InitGate /\ [][NextGate]_vars

\* the invoice numbers: two orders have been created, and they are confirmed
\* and set to any status, again and again
InitNumbers ==
    /\ now = 0
    /\ \E amount \in OrderAmounts :
          orders = <<Order("supplier", "buyer", amount),
                     Order("supplier", "buyer", amount)>>
    /\ invoices = <<>>
    /\ apps = <<>>
    /\ loans = <<>>
    /\ ledger = <<>>
    /\ reqs = EmptyBag
    /\ last = NoAnswer
    /\ nops = 2
    /\ races = 0
    /\ users = Users

NextNumbers ==
    \E o \in DOMAIN orders, st \in OrderStatus, a \in Users : update_order(o, st, a)

SpecNumbers == InitNumbers /\ [][NextNumbers]_vars

----------------------------------------------------------------------------
(* Properties *)

InvoicePayments == {"update_invoice", "mock_pay_invoice", "mock_payment"}

\* the ledger rows of one type that carry a reference
Entries(type, reference_id, reference_type) ==
    {k \in DOMAIN ledger : /\ ledger[k].type = type
                           /\ ledger[k].reference_id = reference_id
                           /\ ledger[k].reference_type = reference_type}

\* the invoices of an order
InvoicesOf(order_id) == {i \in DOMAIN invoices : invoices[i].order = order_id}

\* the invoice a loan finances
FinancedInvoice(loan_id) == apps[loans[loan_id].application].invoice

\* C1: in every reachable state, whatever the interleaving of the apply
\* requests, an invoice has at most one Pending loan application (of two
\* concurrent applications for the same invoice only one is admitted).
C1_AtMostOnePendingPerInvoice ==
    \A i \in DOMAIN invoices : Cardinality(PendingApplications(i)) <= 1

\* C2: in every reachable state no two Active loans finance the same invoice.
C2_NoDoubleFinancing ==
    \A l1 \in DOMAIN loans, l2 \in DOMAIN loans :
        (/\ l1 # l2
         /\ loans[l1].status = "active"
         /\ loans[l2].status = "active")
        => FinancedInvoice(l1) # FinancedInvoice(l2)

\* C3: money-moving transitions are all-or-nothing: in every reachable state
\* a Paid invoice has its payment pair in the ledger, a loan has its
\* disbursement pair, a Repaid loan has its repayment pair as well, and no
\* reference has a credit without its debit or a debit without its credit.
C3_AllOrNothing ==
    /\ \A i \in DOMAIN invoices :
           invoices[i].status = "paid"
           => /\ Entries("credit", i, "invoice") # {}
              /\ Entries("debit", i, "invoice") # {}
    /\ \A l \in DOMAIN loans :
           LET pairs == IF loans[l].status = "repaid" THEN 2 ELSE 1
           IN  /\ Cardinality(Entries("credit", l, "loan")) >= pairs
               /\ Cardinality(Entries("debit", l, "loan")) >= pairs
    /\ \A k \in DOMAIN ledger :
           Cardinality(Entries("credit", ledger[k].reference_id,
                               ledger[k].reference_type))
           = Cardinality(Entries("debit", ledger[k].reference_id,
                                 ledger[k].reference_type))

\* a payment, a disbursement or a repayment that was answered with success
Completed(answer) ==
    /\ answer.res = "ok"
    /\ \/ answer.op \in {"mock_pay_invoice", "mock_payment", "repay_loan"}
       \/ answer.op = "update_invoice" /\ answer.arg = "paid"
       \/ answer.op = "update_loan_application" /\ answer.arg = "approved"

\* the row carries the reference of the transition that was answered: the
\* invoice paid, the loan repaid, or the loan created for the application
RefersTo(answer, row) ==
    IF answer.op \in InvoicePayments
    THEN row.reference_type = "invoice" /\ row.reference_id = answer.id
    ELSE /\ row.reference_type = "loan"
         /\ row.reference_id \in DOMAIN loans
         /\ IF answer.op = "repay_loan"
            THEN row.reference_id = answer.id
            ELSE loans[row.reference_id].application = answer.id

\* the party that receives and the party that pays in the transition
Parties(answer) ==
    IF answer.op \in InvoicePayments
    THEN [credit |-> orders[invoices[answer.id].order].supplier,
          debit |-> orders[invoices[answer.id].order].buyer]
    ELSE LET loan == loans[answer.posted[1].reference_id]
             applicant == apps[loan.application].applicant
         IN  IF answer.op = "repay_loan"
             THEN [credit |-> loan.lender, debit |-> applicant]
             ELSE [credit |-> applicant, debit |-> loan.lender]

\* C4: a payment, a disbursement or a repayment that completed has appended
\* exactly two ledger rows, one credit on the party that receives and one
\* debit on the party that pays, with the same amount and the same reference
\* (id and type), the reference of the invoice or the loan of the transition.
C4_PairedEntries ==
    Completed(last) =>
        /\ Len(last.posted) = 2
        /\ \A k \in 1..2 :
               /\ RefersTo(last, last.posted[k])
               /\ \E j \in DOMAIN ledger : ledger[j] = last.posted[k]
        /\ last.posted[1].reference_id = last.posted[2].reference_id
        /\ last.posted[1].amount = last.posted[2].amount
        /\ \E c \in 1..2, d \in 1..2 :
               /\ last.posted[c].type = "credit"
               /\ last.posted[c].entity = Parties(last).credit
               /\ last.posted[d].type = "debit"
               /\ last.posted[d].entity = Parties(last).debit

\* a loan of 100 was repaid with its interest
C4_Witness ==
    /\ Completed(last)
    /\ last.op = "repay_loan"
    /\ Len(last.posted) = 2
    /\ last.posted[1].amount = 105

\* C5: a request that confirms an order whose status is not Pending changes
\* neither the order nor the invoices (it is refused).
C5_ConfirmNonPendingRefused ==
    [][\A o \in DOMAIN orders, a \in Users :
          (orders[o].status # "pending" /\ update_order(o, "confirmed", a))
          => (orders' = orders /\ invoices' = invoices)]_vars

\* C6: the only changes an order's status ever makes are Pending to Confirmed
\* and Confirmed to Paid.
C6_OrderStatusMonotonic ==
    [][\A o \in DOMAIN orders :
          orders'[o].status # orders[o].status
          => <<orders[o].status, orders'[o].status>>
                 \in {<<"pending", "confirmed">>, <<"confirmed", "paid">>}]_vars

\* C7: in every reachable state every order has at most one invoice.
C7_AtMostOneInvoicePerOrder ==
    \A o \in DOMAIN orders : Cardinality(InvoicesOf(o)) <= 1

\* C8: in every reachable state every invoice has
\* 0 <= remaining_amount <= amount, and remaining_amount = 0 exactly when its
\* status is Paid.
C8_RemainingAmount ==
    \A i \in DOMAIN invoices :
        /\ 0 <= invoices[i].remaining_amount
        /\ invoices[i].remaining_amount <= invoices[i].amount
        /\ invoices[i].remaining_amount = 0 <=> invoices[i].status = "paid"

\* C9: in every reachable state an order is Paid exactly when its invoice is
\* Paid: a Paid order has a Paid invoice and a Paid invoice is of a Paid order.
C9_OrderPaidIffInvoicePaid ==
    /\ \A o \in DOMAIN orders :
           orders[o].status = "paid"
           => \E i \in InvoicesOf(o) : invoices[i].status = "paid"
    /\ \A i \in DOMAIN invoices :
           invoices[i].status = "paid" => orders[invoices[i].order].status = "paid"

\* a request to pay the invoice, through any of the three entry points
PayRequest(invoice_id) ==
    \/ mock_pay_invoice(invoice_id)
    \/ mock_payment(invoice_id)
    \/ \E a \in Users : update_invoice(invoice_id, "paid", a)

\* C10: a request to pay an invoice that is Paid, through any entry point, is
\* answered AlreadyPaid at once: it is not admitted, so it changes no status
\* and appends no ledger row.
C10_AlreadyPaidRefused ==
    [][\A i \in DOMAIN invoices :
          (invoices[i].status = "paid" /\ PayRequest(i))
          => (last'.res = "AlreadyPaid" /\ reqs' = reqs)]_vars

\* C11: a request to pay an Unpaid invoice that has a Pending loan
\* application, through any entry point, is answered BlockedByPendingLoan at
\* once: it is not admitted, so it changes no status and appends no ledger
\* row.
C11_BlockedByPendingLoan ==
    [][\A i \in DOMAIN invoices :
          (/\ invoices[i].status = "unpaid"
           /\ PendingApplications(i) # {}
           /\ PayRequest(i))
          => (last'.res = "BlockedByPendingLoan" /\ reqs' = reqs)]_vars

\* the rows of a table a request wrote, in the order it wrote them
SavedRows(answer, table) ==
    SelectSeq(answer.saved, LAMBDA w : w.table = table)

\* a payment through PUT /api/invoices/{id} or POST /api/invoices/{id}/pay/mock
\* that was not refused (neither AlreadyPaid nor BlockedByPendingLoan)
Paid(answer) ==
    /\ answer.res \notin {"AlreadyPaid", "BlockedByPendingLoan"}
    /\ \/ answer.op = "mock_pay_invoice"
       \/ answer.op = "update_invoice" /\ answer.arg = "paid"

\* C12: a payment that is not refused succeeds: it has saved the invoice with
\* remaining_amount 0 and status Paid, has saved the invoice's order with
\* status Paid, and has appended a credit to the order's supplier and a debit
\* to the order's buyer, both for the invoice amount and with the invoice as
\* their reference.
C12_PaymentEffect ==
    Paid(last) =>
        LET invoice == invoices[last.id]
            order == orders[invoice.order]
            credit == AccountLedger(order.supplier, "credit", invoice.amount,
                                    last.id, "invoice")
            debit == AccountLedger(order.buyer, "debit", invoice.amount,
                                   last.id, "invoice")
            saved_invoices == SavedRows(last, "invoices")
            saved_orders == SavedRows(last, "orders")
        IN  /\ last.res = "ok"
            /\ Len(saved_invoices) = 1
            /\ saved_invoices[1].id = last.id
            /\ saved_invoices[1].row.remaining_amount = 0
            /\ saved_invoices[1].row.status = "paid"
            /\ Len(saved_orders) = 1
            /\ saved_orders[1].id = invoice.order
            /\ saved_orders[1].row.status = "paid"
            /\ last.posted = <<credit, debit>>
            /\ Len(last.saved) = 2

C14_InvoiceStatusMonotonic ==
    [][\A i \in DOMAIN invoices :
          /\ invoices[i].status = "paid" => invoices'[i].status = "paid"
          /\ invoices[i].status = "partial" => invoices'[i].status # "unpaid"]_vars

\* the loans created for an application
LoansOf(application_id) ==
    {l \in DOMAIN loans : loans[l].application = application_id}

\* C15: in every reachable state, whatever the interleaving of the decide
\* requests, an application is Approved exactly when one loan references it,
\* and an application that is Pending or Rejected has no loan.
C15_LoanIffApproved ==
    \A a \in DOMAIN apps :
        IF apps[a].status = "approved"
        THEN Cardinality(LoansOf(a)) = 1
        ELSE LoansOf(a) = {}

\* C16: a request to decide an application that is Approved or Rejected is
\* answered AlreadyDecided at once: it is not admitted, the application keeps
\* its status, no loan is created and no ledger row is appended.
C16_AlreadyDecidedRefused ==
    [][\A ap \in DOMAIN apps, st \in LoanApplicationStatus,
          sc \in RiskScores, a \in Users :
          (/\ apps[ap].status \in {"approved", "rejected"}
           /\ update_loan_application(ap, st, sc, a))
          => /\ last'.op = "update_loan_application"
             /\ last'.id = ap
             /\ last'.res = "AlreadyDecided"
             /\ last'.saved = <<>>
             /\ last'.posted = <<>>
             /\ reqs' = reqs
             /\ UNCHANGED <<apps, loans, ledger>>]_vars

\* a decision on an application that was Rejected has been refused
C16_Witness ==
    /\ last.op = "update_loan_application"
    /\ last.res = "AlreadyDecided"
    /\ last.arg = "approved"
    /\ apps[last.id].status = "rejected"
    /\ loans = <<>>
    /\ ledger = <<>>

\* an approval that was answered with success
Approved(answer) ==
    /\ answer.op = "update_loan_application"
    /\ answer.arg = "approved"
    /\ answer.res = "ok"

\* C17: an approval that succeeded has created one loan of the application,
\* with the approving user as lender, the application's amount_requested as
\* amount and status Active, and has appended a credit to the applicant and a
\* debit to the lender, both for that amount and with the loan as reference.
C17_ApprovalEffect ==
    Approved(last) =>
        LET application == apps[last.id]
            created == SavedRows(last, "loans")
            loan == created[1]
            credit == AccountLedger(application.applicant, "credit",
                                    application.amount_requested, loan.id, "loan")
            debit == AccountLedger(last.actor, "debit",
                                   application.amount_requested, loan.id, "loan")
        IN  /\ Len(created) = 1
            /\ loan.row.application = last.id
            /\ loan.row.lender = last.actor
            /\ loan.row.amount = application.amount_requested
            /\ loan.row.status = "active"
            /\ loan.id \in DOMAIN loans
            /\ loans[loan.id].application = last.id
            /\ last.posted = <<credit, debit>>

\* an application for 100 was approved: loan 1 of 100 is Active and the ledger
\* holds the disbursement pair
C17_Witness ==
    /\ Approved(last)
    /\ Len(loans) = 1
    /\ loans[1].amount = 100
    /\ loans[1].status = "active"
    /\ Len(ledger) = 2

\* C18: a request to repay a loan that is not Active is answered
\* InvalidLoanState at once: it is not admitted, the loan keeps its status and
\* no ledger row is appended.
C18_InvalidLoanStateRefused ==
    [][\A l \in DOMAIN loans, a \in Users :
          (loans[l].status # "active" /\ repay_loan(l, a))
          => /\ last'.op = "repay_loan"
             /\ last'.id = l
             /\ last'.res = "InvalidLoanState"
             /\ last'.saved = <<>>
             /\ last'.posted = <<>>
             /\ reqs' = reqs
             /\ UNCHANGED <<loans, ledger>>]_vars

\* a second repayment of a loan that was Repaid has been refused: the ledger
\* holds the disbursement pair and one repayment pair
C18_Witness ==
    /\ last.op = "repay_loan"
    /\ last.res = "InvalidLoanState"
    /\ loans[last.id].status = "repaid"
    /\ Len(ledger) = 4
    /\ reqs = EmptyBag

\* a repayment that was answered with success
Repaid(answer) == answer.op = "repay_loan" /\ answer.res = "ok"

C20_DecisionsAreFinal ==
    [][/\ \A a \in DOMAIN apps :
             apps[a].status \in {"approved", "rejected"}
             => apps'[a].status = apps[a].status
       /\ \A l \in DOMAIN loans :
             loans[l].status \in {"repaid", "defaulted"}
             => loans'[l].status = loans[l].status]_vars

\* the balance of the entity in hundredths, computed exactly
RECURSIVE ExactBalance(_, _, _)
ExactBalance(rows, entity_id, i) ==
    IF i > Len(rows) THEN 0
    ELSE ExactBalance(rows, entity_id, i + 1)
         + (IF rows[i].entity # entity_id THEN 0
            ELSE IF rows[i].type = "debit" THEN rows[i].amount
            ELSE -rows[i].amount)

\* C21: a manual posting with amount <= 0 is answered InvalidAmount and
\* appends nothing, a manual posting with amount > 0 is answered ok and
\* appends exactly one row with the user, type, amount and reference
\* submitted; and no recording, through the route or through record_debit and
\* record_credit, appends a row whose amount is <= 0.
C21_RecordValidatesAmount ==
    [][/\ \A a \in Users, t \in LedgerType, amt \in ServiceAmounts, ref \in References :
            record_transaction_route(a, t, amt, ref) =>
                IF amt <= 0
                THEN last'.res = "InvalidAmount" /\ ledger' = ledger
                ELSE /\ last'.res = "ok"
                     /\ ledger' = Append(ledger,
                                         AccountLedger(a, t, amt, ref[1], ref[2]))
       /\ \A k \in DOMAIN ledger' : k > Len(ledger) => ledger'[k].amount > 0]_vars

C23_BalanceIsSum ==
    [][\A r \in Running :
           (get_balance_step(r) /\ r.pc = "credit_total") =>
               \E k \in 0..Len(ledger) :
                   last'.balance
                       = Hundredths(ExactBalance(SubSeq(ledger, 1, k), r.actor, 1))]_vars

\* C24: no step removes or changes a row of the ledger: the ledger of the
\* state before is a prefix of the ledger of the state after.
C24_AppendOnly ==
    [][/\ Len(ledger') >= Len(ledger)
       /\ SubSeq(ledger', 1, Len(ledger)) = ledger]_vars

\* C25: the gate answers with the first check that fails, in the order
\* invoice missing, invoice not unpaid, amount above 1.2 x the invoice amount,
\* amount <= 0, a pending application on the invoice; a request that fails is
\* answered at once and creates no application; a request that passes them all
\* goes on to create one.  (A request of exactly 1.2 x the invoice amount is
\* left to C26: it may be answered AmountExceedsCeiling or judged by the
\* checks that follow.)
C25_GateOrder ==
    [][\A a \in Users, i \in 1..Len(invoices) + 1, amt \in GateRequestAmounts :
           apply_for_loan(a, i, amt) =>
               LET refused(kind) ==
                       /\ last'.op = "apply_for_loan" /\ last'.res = kind
                       /\ reqs' = reqs /\ apps' = apps
                   after_ceiling ==
                       IF amt <= 0 THEN refused("InvalidAmount")
                       ELSE IF \E k \in DOMAIN apps :
                                   apps[k].invoice = i /\ apps[k].status = "pending"
                            THEN refused("DuplicatePendingApplication")
                       ELSE reqs' # reqs /\ last' = last /\ apps' = apps
               IN  IF i \notin DOMAIN invoices THEN refused("InvoiceNotFound")
                   ELSE IF invoices[i].status # "unpaid"
                        THEN refused("InvoiceNotEligible")
                   ELSE IF 10 * amt > 12 * invoices[i].amount
                        THEN refused("AmountExceedsCeiling")
                   ELSE IF 10 * amt = 12 * invoices[i].amount
                        THEN refused("AmountExceedsCeiling") \/ after_ceiling
                   ELSE after_ceiling]_vars

\* a second application for an invoice with a pending one was refused by the
\* last check of the gate, and the first application is the only one
C25_Witness ==
    /\ last.op = "apply_for_loan"
    /\ last.res = "DuplicatePendingApplication"
    /\ Len(apps) = 1
    /\ apps[1].status = "pending"

\* C26: for an unpaid invoice, a request is answered AmountExceedsCeiling
\* exactly when the amount requested is above 1.2 x the invoice amount, both
\* taken as amounts of two decimals: a request of exactly 1.2 x the invoice
\* amount passes the ceiling, one of 0.01 more does not.
C26_CeilingBoundary ==
    [][\A a \in Users, i \in DOMAIN invoices, amt \in GateRequestAmounts :
           (apply_for_loan(a, i, amt) /\ invoices[i].status = "unpaid") =>
               ((reqs' = reqs /\ last'.res = "AmountExceedsCeiling")
                    <=> 10 * amt > 12 * invoices[i].amount)]_vars

\* C27: the score saved with an application is 70, plus 15 / 10 / 5 / 0 for
\* max(1, days until due) < 30 / < 60 / < 90 / otherwise, plus 10 / 5 / -5 /
\* -20 for a ratio of the amount requested to the invoice amount <= 0.8 /
\* <= 1.0 / <= 1.2 / otherwise, clamped to 0..100; the edges are inclusive.
C27_RiskScoreTable ==
    [][\A r \in Running :
           (apply_for_loan_step(r) /\ r.pc = "score" /\ invoices[r.id].amount > 0) =>
               \E days \in DaysUntil(invoices[r.id].due_date, now') :
                   LET amount == invoices[r.id].amount
                       days_until_due == Max(1, days)
                       by_days == IF days_until_due < 30 THEN 15
                                  ELSE IF days_until_due < 60 THEN 10
                                  ELSE IF days_until_due < 90 THEN 5
                                  ELSE 0
                       by_ratio == IF 10 * r.amount <= 8 * amount THEN 10
                                   ELSE IF r.amount <= amount THEN 5
                                   ELSE IF 10 * r.amount <= 12 * amount THEN -5
                                   ELSE -20
                   IN  apps'[r.new].risk_score
                           = Max(0, Min(100, 70 + by_days + by_ratio))]_vars

\* C28: an application that passes the gate is created once, pending, with the
\* applicant, the invoice and the amount submitted; the request then saves
\* that same row with a score that is not null and is the value of
\* calculate_risk_score for the application and its invoice, and answers ok.
C28_ApplyCreatesScoredPending ==
    [][/\ \A a \in Users, i \in DOMAIN invoices, amt \in GateRequestAmounts :
              (apply_for_loan(a, i, amt) /\ reqs' # reqs) =>
                  \E r \in BagToSet(reqs') :
                      /\ r.actor = a /\ r.id = i /\ r.amount = amt /\ r.pc = "create"
                      /\ CopiesIn(r, reqs') = CopiesIn(r, reqs) + 1
                      /\ apps' = apps
       /\ \A r \in Running :
              apply_for_loan_step(r) =>
                  LET row(score) ==
                          [applicant |-> r.actor, invoice |-> r.id,
                           amount_requested |-> r.amount, status |-> "pending",
                           risk_score |-> score]
                  IN  IF r.pc = "create"
                      THEN apps' = Append(apps, row(NoScore)) /\ last' = last
                      ELSE /\ last'.op = "apply_for_loan" /\ last'.res = "ok"
                           /\ \E days \in DaysUntil(invoices[r.id].due_date, now') :
                                 LET score == calculate_risk_score(
                                                  r.amount, invoices[r.id].amount, days)
                                 IN  /\ score # NoScore
                                     /\ apps' = [apps EXCEPT ![r.new] = row(score)]
                                     /\ last'.saved
                                            = <<Saved("loan_applications", r.new,
                                                      row(NoScore)),
                                                Saved("loan_applications", r.new,
                                                      row(score))>>]_vars

\* an application was answered ok: it is pending and carries a score
C28_Witness ==
    /\ last.op = "apply_for_loan"
    /\ last.res = "ok"
    /\ Len(last.saved) = 2
    /\ apps[last.saved[2].id].status = "pending"
    /\ apps[last.saved[2].id].risk_score # NoScore

\* C29: the score of an application gates nothing.  Whether an application is
\* admitted depends on the invoice, the amount and the pending applications
\* of the invoice; whether a decision is admitted depends on the status of
\* the application alone; and the rows a decision writes (the status of the
\* application, the loan, the two ledger rows) are made of the decision and of
\* the applicant, the invoice and the amount of the application: none of them
\* reads the score, so two applications that differ in it alone fare alike.
C29_ScoreNeverGates ==
    [][/\ \A a \in Users, i \in 1..Len(invoices) + 1, amt \in GateRequestAmounts :
              apply_for_loan(a, i, amt) =>
                  (reqs' # reqs <=>
                      /\ i \in DOMAIN invoices
                      /\ invoices[i].status = "unpaid"
                      /\ ~ExceedsMaxAllowed[amt, invoices[i].amount]
                      /\ amt > 0
                      /\ ~\E k \in DOMAIN apps :
                              apps[k].invoice = i /\ apps[k].status = "pending")
       /\ \A ap \in DOMAIN apps, st \in LoanApplicationStatus, sc \in RiskScores,
             a \in Users :
              update_loan_application(ap, st, sc, a) =>
                  IF apps[ap].status = "pending"
                  THEN reqs' # reqs /\ last' = last
                  ELSE reqs' = reqs /\ last'.res = "AlreadyDecided"
       /\ \A r \in Running :
              update_loan_application_step(r) =>
                  /\ IF r.pc = "save_app"
                     THEN /\ \E score \in {r.score, r.obj.risk_score} :
                                apps' = [apps EXCEPT ![r.id] =
                                           [applicant |-> r.obj.applicant,
                                            invoice |-> r.obj.invoice,
                                            amount_requested |-> r.obj.amount_requested,
                                            status |-> r.arg,
                                            risk_score |-> score]]
                          /\ (reqs' = reqs (-) SetToBag({r})) <=> r.arg # "approved"
                          /\ r.arg # "approved" => last'.res = "ok"
                     ELSE apps' = apps
                  /\ loans' = IF r.pc = "create_loan"
                              THEN Append(loans,
                                          [application |-> r.id, lender |-> r.actor,
                                           interest_rate |-> DefaultInterestRate,
                                           amount |-> r.obj.amount_requested,
                                           status |-> "active"])
                              ELSE loans
                  /\ ledger' = IF r.pc = "credit"
                               THEN Append(ledger,
                                           AccountLedger(r.obj.applicant, "credit",
                                                         r.obj.amount_requested,
                                                         r.new, "loan"))
                               ELSE IF r.pc = "debit"
                               THEN Append(ledger,
                                           AccountLedger(r.actor, "debit",
                                                         r.obj.amount_requested,
                                                         r.new, "loan"))
                               ELSE ledger]_vars

\* an application with the lowest score the scoring gives here was approved
\* and its loan exists
C29_Witness ==
    /\ last.op = "update_loan_application"
    /\ last.arg = "approved"
    /\ last.res = "ok"
    /\ apps[last.id].risk_score = 80
    /\ \E l \in DOMAIN loans : loans[l].application = last.id

RECURSIVE Total(_, _, _)
Total(rows, type, i) ==
    IF i > Len(rows) THEN 0
    ELSE Total(rows, type, i + 1) + (IF rows[i].type = type THEN rows[i].amount ELSE 0)

\* C31: when every payment, disbursement and repayment received has completed
\* (no request is in flight) and there were no manual postings, the sum of
\* the debit amounts of the ledger equals the sum of its credit amounts.
C31_LedgerNetsToZero ==
    reqs = EmptyBag => Total(ledger, "debit", 1) = Total(ledger, "credit", 1)

\* a loan was disbursed and repaid and a payment of its invoice was asked
\* for, all answered: four rows, 2.05 on either side
C31_Witness ==
    /\ reqs = EmptyBag
    /\ Len(ledger) = 4
    /\ Total(ledger, "debit", 1) = 205
    /\ last.op \in InvoicePayments
    /\ invoices[last.id].status = "paid"

\* C32: no step changes the amount of an invoice that exists, and the amount
\* of every invoice is the amount of its order, which was copied at the
\* confirmation.
C32_InvoiceAmountImmutable ==
    [][/\ \A i \in DOMAIN invoices :
              i \in DOMAIN invoices' /\ invoices'[i].amount = invoices[i].amount
       /\ \A i \in DOMAIN invoices' :
              invoices'[i].amount = orders'[invoices'[i].order].amount]_vars

\* an invoice of 1.00 was financed and then paid, and its amount is 1.00
C32_Witness ==
    \E i \in DOMAIN invoices :
        /\ invoices[i].status = "paid"
        /\ invoices[i].remaining_amount = 0
        /\ invoices[i].amount = 100
        /\ \E k \in DOMAIN apps : apps[k].invoice = i /\ apps[k].status = "approved"

\* C33: whenever a balance is asked for, the value that calculate_balance
\* derives from the rows of the user is the same for every order in which
\* these same rows could have been appended.
C33_BalanceOrderIndependent ==
    [][\A a \in Users :
           get_balance(a) =>
               LET rows == SelectSeq(ledger, LAMBDA row : row.entity = a)
                   balance(entries) ==
                       FloatSub(Sum(entries, a, "debit", 1, FloatZero),
                                Sum(entries, a, "credit", 1, FloatZero))
               IN  \A p \in Permutations(DOMAIN rows) :
                       balance([k \in DOMAIN rows |-> rows[p[k]]]) = balance(rows)]_vars

\* C34: a query of the entries of a user returns rows of that user only, the
\* newest first, without the offset newest ones and no more than limit: the
\* rows it returns are exactly those whose rank by recency among the rows of
\* the user lies in offset + 1 .. offset + limit, in descending order of
\* creation.  A query by reference does the same with the rows that bear both
\* the reference id and the reference type.
C34_EntriesPaged ==
    [][LET paged(entries, match(_), limit, offset) ==
               LET rank(k) == 1 + Cardinality({j \in DOMAIN ledger :
                                                  j > k /\ match(ledger[j])})
               IN  /\ Len(entries) <= limit
                   /\ \A n \in DOMAIN entries :
                          /\ entries[n] \in DOMAIN ledger
                          /\ match(ledger[entries[n]])
                   /\ \A n \in DOMAIN entries, m \in DOMAIN entries :
                          n < m => entries[n] > entries[m]
                   /\ \A k \in DOMAIN ledger :
                          (\E n \in DOMAIN entries : entries[n] = k)
                              <=> /\ match(ledger[k])
                                  /\ rank(k) \in offset + 1 .. offset + limit
           of_user(row) == row.entity = last'.actor
           of_reference(row) == /\ row.reference_id = last'.id
                                /\ row.reference_type = last'.arg
           answered(op) == /\ last'.op = op /\ nops' = nops + 1 /\ reqs' = reqs
                           /\ UNCHANGED <<orders, invoices, ledger, users>>
       IN  /\ answered("get_ledger_entries") =>
                  paged(last'.entries, of_user, last'.limit, last'.offset)
           /\ answered("get_entries_by_reference") =>
                  paged(last'.entries, of_reference, last'.limit, last'.offset)]_vars

\* a user with three rows asked for one page past the newest row and got the
\* two older ones, the newer of them first
C34_Witness ==
    /\ last.op = "get_ledger_entries"
    /\ Len(last.entries) = 2
    /\ last.entries[1] > last.entries[2]
    /\ \E k \in DOMAIN ledger :
           k > last.entries[1] /\ ledger[k].entity = last.actor

\* C35: in every reachable state, for every invoice, the ledger holds at most
\* one credit row and at most one debit row with the reference (the id of the
\* invoice, "invoice").
C35_InvoicePaidOnce ==
    \A i \in DOMAIN invoices :
        /\ Cardinality(Entries("credit", i, "invoice")) <= 1
        /\ Cardinality(Entries("debit", i, "invoice")) <= 1

\* two payments of the same invoice were admitted together: one has saved the
\* invoice as paid and was answered, the other is still in flight
C35_Witness ==
    \E r \in Running :
        /\ r.op \in InvoicePayments
        /\ r.arg = "paid"
        /\ last.op \in InvoicePayments
        /\ last.id = r.id
        /\ last.res = "error"
        /\ invoices[r.id].status = "paid"

\* C36: in every reachable state, for every loan, the ledger holds at most
\* one repayment pair with the reference (the id of the loan, "loan"): at most
\* one debit row on the borrower and at most one credit row on the lender.
C36_LoanRepaidOnce ==
    \A l \in DOMAIN loans :
        LET borrower == apps[loans[l].application].applicant
        IN  /\ Cardinality({k \in Entries("debit", l, "loan") :
                                ledger[k].entity = borrower}) <= 1
            /\ Cardinality({k \in Entries("credit", l, "loan") :
                                ledger[k].entity = loans[l].lender}) <= 1

\* C37: in every reachable state no invoice is paid while a pending loan
\* application refers to it.
C37_NoPaidInvoiceWithPendingLoan ==
    \A i \in DOMAIN invoices :
        invoices[i].status = "paid" => PendingApplications(i) = {}


\* C38: every application the gate admits asks for an amount > 0 on an
\* invoice whose amount is > 0, when it is admitted, while it waits for its
\* score and once it is stored, so that the division of the score never
\* divides by zero: no application is answered with the error of a division.
C38_AdmittedAmountsPositive ==
    /\ \A r \in Running :
           r.op = "apply_for_loan"
           => r.amount > 0 /\ invoices[r.id].amount > 0
    /\ \A k \in DOMAIN apps :
           apps[k].amount_requested > 0 /\ invoices[apps[k].invoice].amount > 0
    /\ last.op = "apply_for_loan" => last.res # "error"

\* an application for 12000.00 on an invoice of 10000.00 was admitted and
\* scored
C38_Witness ==
    /\ last.op = "apply_for_loan"
    /\ last.res = "ok"
    /\ \E k \in DOMAIN apps :
           /\ apps[k].amount_requested = 1200000
           /\ invoices[apps[k].invoice].amount = 1000000
           /\ apps[k].risk_score # NoScore

====
